---- MODULE Spec2Model ----
(***************************************************************************)
(* Model of the note-splitting and indexing pipeline of wcqtlib            *)
(* (wcqtlib/data/extract.py): split_examples, split_examples_with_count,   *)
(* standardize_one, row_to_notes and datasets_to_notes, over an abstract   *)
(* file system.                                                            *)
(*                                                                         *)
(* A file name is a sequence of tokens whose last token is the extension;  *)
(* a path is a record [dir, name]; the disk maps every existing path to    *)
(* its content [kind, dur]: kind "audio" is a readable file of duration    *)
(* dur, the other kinds name the exception claudio.fileio.AudioFile raises *)
(* on opening the file.                                                    *)
(***************************************************************************)
EXTENDS Integers, Sequences, FiniteSets, TLC

\* ------------------------------------------------------------------ bounds
\* Largest number of clips one segmentation call writes.
MaxClips == 2
\* Number of datasets_to_notes runs in one behaviour.
MaxRuns == 2
\* The epochs a training runs for, at most.
MaxEpochs == 2

\* ------------------------------------------------------- program constants
\* min_voicing_duration handed to split_along_silence (in model time units).
min_voicing_duration == 2
\* extract/max_duration of the configuration (in model time units).
max_duration == 3
\* Longest duration a file of the model has.
LongDur == 4

\* Most parameter files a model search is given, and the highest accuracy.
MaxParams == 4
MaxAcc == 2

\* ------------------------------------------------------------- file system
NoDir == "none"
DataDir == "data"
NonePath == [dir |-> NoDir, name |-> <<>>]

Audio(d) == [kind |-> "audio", dur |-> d]
Broken(k) == [kind |-> k, dur |-> 0]

\* claudio.fileio.AudioFile(path): the content read, a missing file fails
\* like an unconvertible one.
AudioFile(disk, p) ==
  IF p \in DOMAIN disk THEN disk[p] ELSE Broken("AssertionError")

exists(disk, p) == p \in DOMAIN disk

\* os.path.basename / os.path.join(output_dir, basename)
basename(p) == p.name
join(d, n) == [dir |-> d, name |-> n]

\* utils.filebase: the name without its extension.
filebase(n) == SubSeq(n, 1, Len(n) - 1)

\* `filebase in x` of split_examples: s occurs in t as a contiguous run.
Infix(s, t) ==
  \E i \in 0..(Len(t) - Len(s)) : SubSeq(t, i + 1, i + Len(s)) = s

\* utils.create_directory
create_directory(dirs, d) == dirs \cup {d}

Write(disk, p, c) ==
  [q \in (DOMAIN disk) \cup {p} |-> IF q = p THEN c ELSE disk[q]]

Remove(disk, ps) == [q \in (DOMAIN disk) \ ps |-> disk[q]]

\* The three-digit suffix sox gives the k-th output file.
NumTok(k) == CASE k = 1 -> "001" [] k = 2 -> "002" [] k = 3 -> "003"
               [] OTHER -> "00n"

\* Name of the k-th file sox writes for new_output_path named n.
SoxName(n, k) == filebase(n) \o <<NumTok(k)>> \o <<n[Len(n)]>>

\* Total order on file names used to list a directory.
RECURSIVE NameLess(_, _)
NameLess(a, b) ==
  IF a = <<>> THEN b # <<>>
  ELSE IF b = <<>> THEN FALSE
  ELSE IF Head(a) = Head(b) THEN NameLess(Tail(a), Tail(b))
  ELSE LET toks == <<".wav", "001", "002", "003", "00n", "C4C4", "C4Db4",
                     "C4D4", "a", "b", "c", "d", "x">>
           pos(x) == CHOOSE i \in 1..Len(toks) : toks[i] = x
       IN pos(Head(a)) < pos(Head(b))

\* The paths of a set, as the sequence os.listdir yields them.
RECURSIVE Listed(_)
Listed(ps) ==
  IF ps = {} THEN <<>>
  ELSE LET m == CHOOSE p \in ps :
                  \A q \in ps \ {p} : NameLess(p.name, q.name)
       IN <<m>> \o Listed(ps \ {m})

Range(s) == {s[i] : i \in 1..Len(s)}

\* ------------------------------------------------------ external primitives
\* What one sox segmentation call does: <<clips, ok>>, the contents of the
\* files it writes, in order, and the status it reports. The files of a call
\* that reports failure are not opened by the caller: one content stands for
\* all.
ClipLists(kinds, n) == UNION {[1..k -> kinds] : k \in 0..n}

SoxOutcomes(kinds, n) ==
  (ClipLists(kinds, n) \X {TRUE})
  \cup (ClipLists({Audio(max_duration)}, n) \X {FALSE})

\* claudio.sox.split_along_silence(input, new_output_path, ...): writes the
\* clips next to new_output_path as <filebase>001<ext>, <filebase>002<ext>.
RECURSIVE SoxWrite(_, _, _, _)
SoxWrite(disk, out, clips, k) ==
  IF k > Len(clips) THEN disk
  ELSE SoxWrite(Write(disk, join(out.dir, SoxName(out.name, k)), clips[k]),
                out, clips, k + 1)

split_along_silence(disk, out, sox) ==
  [ok |-> sox[2], disk |-> SoxWrite(disk, out, sox[1], 1)]

\* claudio.sox.trim(input, output, 0, final_duration): output None trims in
\* place; a failing call leaves the disk as it was.
trim(disk, input, output, final_duration, success) ==
  LET target == IF output = NonePath THEN input ELSE output
  IN IF success THEN Write(disk, target, Audio(final_duration)) ELSE disk

\* wcqtlib.data.parse.get_num_notes_from_uiowa_filename: the note count the
\* note-range token of the file name encodes, 0 when there is none.
get_num_notes_from_uiowa_filename(p) ==
  IF \E i \in 1..Len(p.name) : p.name[i] = "C4C4" THEN 1
  ELSE IF \E i \in 1..Len(p.name) : p.name[i] = "C4Db4" THEN 2
  ELSE IF \E i \in 1..Len(p.name) : p.name[i] = "C4D4" THEN 3
  ELSE 0

\* wcqtlib.data.parse.generate_id: a deterministic id of (dataset, file).
generate_id(dataset, p) == <<dataset, p.dir, p.name>>

\* ---------------------------------------------------------- split_examples
\* The result of split_examples: files is the list returned, exc the
\* exception raised instead, disk and dirs the file system it leaves;
\* validated tells whether the validation pass ran and ready is the length of
\* ready_files at the end of split_examples.
\* The files of output_dir that split_examples takes for files derived from
\* the input: `filebase in x and original_name != x`.
StemFiles(disk, input, output_dir) ==
  {p \in DOMAIN disk : /\ p.dir = output_dir
                       /\ Infix(filebase(basename(input)), p.name)
                       /\ p.name # basename(input)}

\* The validation loop of split_examples over process_files.
RECURSIVE Validate(_, _, _, _)
Validate(files, disk, ready, mvd) ==
  IF files = <<>> THEN [files |-> ready, disk |-> disk, exc |-> "none"]
  ELSE LET f == Head(files)
           aobj == AudioFile(disk, f)
       IN IF aobj.kind = "audio"
          THEN IF aobj.dur >= mvd
               THEN Validate(Tail(files), disk, Append(ready, f), mvd)
               ELSE Validate(Tail(files), Remove(disk, {f}), ready, mvd)
          ELSE IF aobj.kind = "AssertionError"
          THEN Validate(Tail(files), Remove(disk, {f}), ready, mvd)
          ELSE [files |-> ready, disk |-> disk, exc |-> aobj.kind]

\* Variant that leaves the old files in place before segmenting.
split_examples_dirty(disk, dirs, input, output_dir, mvd, skip_processing, clean_state, sox) ==
  LET new_output_path == join(output_dir, basename(input))
      dirs1 == create_directory(dirs, output_dir)
      split == split_along_silence(disk, new_output_path, sox)
      disk2 == IF skip_processing THEN disk ELSE split.disk
      calls == IF skip_processing THEN 0 ELSE 1
  IN IF skip_processing \/ split.ok
     THEN LET v == Validate(Listed(StemFiles(disk2, input, output_dir)),
                            disk2, <<>>, mvd)
          IN [files |-> v.files, disk |-> v.disk, dirs |-> dirs1,
              exc |-> v.exc, soxCalls |-> calls, validated |-> TRUE,
              ready |-> Len(v.files)]
     ELSE [files |-> <<>>, disk |-> disk2, dirs |-> dirs1,
           exc |-> "none", soxCalls |-> calls, validated |-> FALSE,
           ready |-> 0]

split_examples(disk, dirs, input, output_dir, mvd, skip_processing, clean_state, sox) ==
  LET new_output_path == join(output_dir, basename(input))
      dirs1 == create_directory(dirs, output_dir)
      old_files == StemFiles(disk, input, output_dir)
      disk1 == IF clean_state /\ ~skip_processing
               THEN Remove(disk, old_files) ELSE disk
      split == split_along_silence(disk1, new_output_path, sox)
      disk2 == IF skip_processing THEN disk1 ELSE split.disk
      calls == IF skip_processing THEN 0 ELSE 1
  IN IF skip_processing \/ split.ok
     THEN LET v == Validate(Listed(StemFiles(disk2, input, output_dir)),
                            disk2, <<>>, mvd)
          IN [files |-> v.files, disk |-> v.disk, dirs |-> dirs1,
              exc |-> v.exc, soxCalls |-> calls, validated |-> TRUE,
              ready |-> Len(v.files)]
     ELSE [files |-> <<>>, disk |-> disk2, dirs |-> dirs1,
           exc |-> "none", soxCalls |-> calls, validated |-> FALSE,
           ready |-> 0]

\* Variant that returns the empty list on a mismatch without deleting.
split_examples_with_count_keep(disk, dirs, input, output_dir, expected_count, mvd, skip_processing, clean_state, sox) ==
  LET s == split_examples(disk, dirs, input, output_dir, mvd,
                          skip_processing, clean_state, sox)
  IN IF s.exc # "none" THEN s
     ELSE IF Len(s.files) # expected_count
     THEN [s EXCEPT !.files = <<>>]
     ELSE s

split_examples_with_count(disk, dirs, input, output_dir, expected_count, mvd, skip_processing, clean_state, sox) ==
  LET s == split_examples(disk, dirs, input, output_dir, mvd,
                          skip_processing, clean_state, sox)
  IN IF s.exc # "none" THEN s
     ELSE IF Len(s.files) # expected_count
     THEN [s EXCEPT !.files = <<>>, !.disk = Remove(s.disk, Range(s.files))]
     ELSE s

\* --------------------------------------------------------- standardize_one
\* Variant that also trims a clip of exactly the final duration.
TooLong_orEqual(final_duration, dur) == final_duration <= dur

\* `final_duration < aobj.duration`
TooLong(final_duration, dur) == final_duration < dur

\* ret is the path returned (NonePath for None); exc the exception raised.
standardize_one(disk, dirs, input, output_dir, first_onset_start, center_of_mass_alignment, final_duration, trimOK) ==
  LET aobj == AudioFile(disk, input)
      same == [ret |-> NonePath, exc |-> "none", disk |-> disk,
               dirs |-> dirs, trimCalls |-> 0]
  IN IF aobj.kind \in {"AssertionError", "wave.Error"} THEN same
     ELSE IF aobj.kind # "audio" THEN [same EXCEPT !.exc = aobj.kind]
     ELSE IF aobj.dur = 0 THEN same
     ELSE IF first_onset_start \/ center_of_mass_alignment
     THEN [same EXCEPT !.exc = "NotImplementedError"]
     ELSE IF TooLong(final_duration, aobj.dur)
     THEN LET output_fname == IF output_dir # NoDir
                              THEN join(output_dir, basename(input))
                              ELSE NonePath
          IN [ret |-> IF output_fname = NonePath THEN input
                      ELSE output_fname,
              exc |-> "none",
              disk |-> trim(disk, input, output_fname, final_duration,
                            trimOK),
              dirs |-> IF output_dir # NoDir
                       THEN create_directory(dirs, output_dir) ELSE dirs,
              trimCalls |-> 1]
     ELSE [same EXCEPT !.ret = input]

\* ------------------------------------------------------------ row_to_notes
\* Variant that keys the entry by the dataset instead of the row index.
NoteEntry_byDataset(index, row, note_file_path, audio_file_path) ==
  [parent |-> row.dataset,
   child |-> generate_id(row.dataset, note_file_path),
   rec |-> [audio_file |-> audio_file_path, dataset |-> row.dataset,
            instrument |-> row.instrument, dynamic |-> row.dynamic]]

\* The (index, generate_id(dataset, note_file_path), record) tuple
\* row_to_notes appends for one note.
NoteEntry(index, row, note_file_path, audio_file_path) ==
  [parent |-> index,
   child |-> generate_id(row.dataset, note_file_path),
   rec |-> [audio_file |-> audio_file_path, dataset |-> row.dataset,
            instrument |-> row.instrument, dynamic |-> row.dynamic]]

\* Variant that puts each new entry in front of the earlier ones.
RECURSIVE NotesLoop_reversed(_, _, _, _, _, _, _, _)
NotesLoop_reversed(notes, row, output_dir, skip_processing, maxdur, trimFails, acc, index) ==
  IF notes = <<>> \/ acc.exc # "none" THEN acc
  ELSE LET note_file_path == Head(notes)
           st == IF skip_processing
                 THEN [ret |-> note_file_path, exc |-> "none",
                       disk |-> acc.disk, dirs |-> acc.dirs,
                       trimCalls |-> 0]
                 ELSE standardize_one(acc.disk, acc.dirs, note_file_path,
                                      output_dir, FALSE, FALSE, maxdur,
                                      note_file_path \notin trimFails)
           entry == NoteEntry(index, row, note_file_path, st.ret)
       IN NotesLoop_reversed(Tail(notes), row, output_dir, skip_processing, maxdur,
                    trimFails,
                    [results |-> IF st.ret = NonePath \/ st.exc # "none"
                                 THEN acc.results
                                 ELSE <<entry>> \o acc.results,
                     exc |-> st.exc, disk |-> st.disk, dirs |-> st.dirs,
                     soxCalls |-> acc.soxCalls,
                     trimCalls |-> acc.trimCalls + st.trimCalls,
                     validated |-> acc.validated, ready |-> acc.ready,
                     notes |-> acc.notes],
                    index)

\* The loop of row_to_notes over result_notes; trimFails is the set of paths
\* on which the trim operation fails during this call.
RECURSIVE NotesLoop(_, _, _, _, _, _, _, _)
NotesLoop(notes, row, output_dir, skip_processing, maxdur, trimFails, acc, index) ==
  IF notes = <<>> \/ acc.exc # "none" THEN acc
  ELSE LET note_file_path == Head(notes)
           st == IF skip_processing
                 THEN [ret |-> note_file_path, exc |-> "none",
                       disk |-> acc.disk, dirs |-> acc.dirs,
                       trimCalls |-> 0]
                 ELSE standardize_one(acc.disk, acc.dirs, note_file_path,
                                      output_dir, FALSE, FALSE, maxdur,
                                      note_file_path \notin trimFails)
           entry == NoteEntry(index, row, note_file_path, st.ret)
       IN NotesLoop(Tail(notes), row, output_dir, skip_processing, maxdur,
                    trimFails,
                    [results |-> IF st.ret = NonePath \/ st.exc # "none"
                                 THEN acc.results
                                 ELSE Append(acc.results, entry),
                     exc |-> st.exc, disk |-> st.disk, dirs |-> st.dirs,
                     soxCalls |-> acc.soxCalls,
                     trimCalls |-> acc.trimCalls + st.trimCalls,
                     validated |-> acc.validated, ready |-> acc.ready,
                     notes |-> acc.notes],
                    index)

\* Variant that splits every uiowa recording without an expected count.
row_to_notes_uncounted(disk, dirs, index, row, mvd, skip_processing, maxdur, sox, trimFails) ==
  LET output_dir == row.dataset
      note_count == get_num_notes_from_uiowa_filename(row.audio_file)
      s == IF row.dataset \in {"rwc", "uiowa"}
           THEN split_examples(disk, dirs, row.audio_file, output_dir, mvd,
                               skip_processing, TRUE, sox)
           ELSE [files |-> <<row.audio_file>>, disk |-> disk,
                 dirs |-> dirs, exc |-> "none", soxCalls |-> 0,
                 validated |-> FALSE, ready |-> 1]
  IN NotesLoop(s.files, row, output_dir, skip_processing, maxdur,
               trimFails,
               [results |-> <<>>, exc |-> s.exc, disk |-> s.disk,
                dirs |-> s.dirs, soxCalls |-> s.soxCalls, trimCalls |-> 0,
                validated |-> s.validated, ready |-> s.ready,
                notes |-> s.files],
               index)

row_to_notes(disk, dirs, index, row, mvd, skip_processing, maxdur, sox, trimFails) ==
  LET output_dir == row.dataset
      note_count == get_num_notes_from_uiowa_filename(row.audio_file)
      s == IF row.dataset = "uiowa" /\ note_count # 0
           THEN split_examples_with_count(disk, dirs, row.audio_file,
                                          output_dir, note_count, mvd,
                                          skip_processing, TRUE, sox)
           ELSE IF row.dataset \in {"rwc", "uiowa"}
           THEN split_examples(disk, dirs, row.audio_file, output_dir, mvd,
                               skip_processing, TRUE, sox)
           ELSE [files |-> <<row.audio_file>>, disk |-> disk,
                 dirs |-> dirs, exc |-> "none", soxCalls |-> 0,
                 validated |-> FALSE, ready |-> 1]
  IN NotesLoop(s.files, row, output_dir, skip_processing, maxdur,
               trimFails,
               [results |-> <<>>, exc |-> s.exc, disk |-> s.disk,
                dirs |-> s.dirs, soxCalls |-> s.soxCalls, trimCalls |-> 0,
                validated |-> s.validated, ready |-> s.ready,
                notes |-> s.files],
               index)

\* ----------------------------------------------------------------- catalog
\* The rows of the datasets dataframe: one rwc recording of a scale, one
\* uiowa recording whose name encodes two notes, one philharmonia note; a
\* second rwc recording whose name holds the stem of the first ("xa.wav"
\* next to "a.wav"), and a uiowa recording whose name encodes no count.
Row ==
  [i \in {"r1", "u1", "p1", "r2", "u2"} |->
     CASE i = "r1" -> [audio_file |-> join(DataDir, <<"a", ".wav">>),
                       dataset |-> "rwc", instrument |-> "piano",
                       dynamic |-> "ff"]
       [] i = "u1" -> [audio_file |-> join(DataDir, <<"b", "C4Db4", ".wav">>),
                       dataset |-> "uiowa", instrument |-> "horn",
                       dynamic |-> "mf"]
       [] i = "p1" -> [audio_file |-> join(DataDir, <<"c", ".wav">>),
                       dataset |-> "philharmonia", instrument |-> "flute",
                       dynamic |-> "pp"]
       [] i = "r2" -> [audio_file |-> join(DataDir, <<"x", "a", ".wav">>),
                       dataset |-> "rwc", instrument |-> "violin",
                       dynamic |-> "mf"]
       [] i = "u2" -> [audio_file |-> join(DataDir, <<"d", ".wav">>),
                       dataset |-> "uiowa", instrument |-> "tuba",
                       dynamic |-> "ff"]]

RowIds == DOMAIN Row
SplitRows == {i \in RowIds : Row[i].dataset \in {"rwc", "uiowa"}}

\* The catalogs a run is given, rows in dataframe order: the recording s
\* that has to be split and the philharmonia note, or the latter alone.
Catalogs(s) == {<<s, "p1">>, <<"p1">>}

\* Contents of the files the model has.
Short == Audio(min_voicing_duration - 1)
Fits == Audio(max_duration)
Long == Audio(LongDur)

\* The recordings to split that the catalogs of the repeated runs have.
PipelineRows == {"r1", "u1"}

\* What sox writes for the recordings of the catalog, fixed per behaviour.
Worlds ==
  UNION {[{s} -> SoxOutcomes({Fits, Long}, MaxClips)] : s \in PipelineRows}
\* What the philharmonia recording is.
Originals == {Fits, Long, Broken("AssertionError")}

NoSox == <<<<>>, TRUE>>

\* The paths row i can have a trim call on.
ClipPaths(i) ==
  IF i \in SplitRows
  THEN {join(Row[i].dataset, SoxName(Row[i].audio_file.name, k)) :
          k \in 1..MaxClips}
  ELSE {Row[i].audio_file}

\* ------------------------------------------------------------------- state
VARIABLES
  disk,             \* the file system: existing path -> content
  dirs,             \* the directories that exist
  world,            \* what sox writes for the recording to split
  index,            \* the notes index last returned by datasets_to_notes
  pc,               \* "idle", "running", "returned", "raised", "unit", "done"
  exc,              \* the exception a raised run ended with
  datasets_df,      \* the catalog of the current run
  notes_df,         \* the existing index given to the current run
  skip_existing,    \* parameters of the current run
  skip_processing,
  todo,             \* rows of the work-list not yet processed
  results,          \* row -> result of row_to_notes, for the processed rows
  disk0,            \* the disk when the current run started
  soxCalls,         \* segmentation calls of the current run
  trimCalls,        \* trim calls of the current run
  nruns,            \* runs started
  repeat,           \* the current run repeats the previous one unchanged
  touched,          \* a file was lost since the last run
  call,             \* the last direct call of a function, and its result
  workers,          \* row -> the position and the locals of its pool worker
  owner,            \* file of the extract directory -> the row that wrote it
  clobbered,        \* files a worker removed or rewrote that another row owns
  artifact,         \* the file at notes_df_path: its format and its frame
  reload,           \* what reading the pickle back did in extract_notes
  succeeded,        \* the value extract_notes returned: "True", "False"
  tpc,              \* position of train_model
  hold_out_set,     \* parameters of train_model
  max_files_per_class,
  max_epochs,       \* config['training/max_epochs']
  param_write_freq, \* config 'training/param_write_frequency_epochs'
  cancelled,        \* the user has cancelled the training loop
  datasets,         \* the datasets train_model trains on
  training_df,      \* the dataframe handed to the streamer
  epoch_count,      \* locals of the training loop
  batch_count,
  epoch_mean_loss,
  model_files,      \* the files under model_dir/experiment_name
  param_list,       \* index -> mean_acc the evaluation of that file gives
  division,         \* what `/` does on two ints: "true" or "floor"
  search_results,   \* `results` of model_search: the indices evaluated
  start_ind,        \* locals of model_search
  end_ind,
  best_model,       \* the last value compare_models returned
  spc,              \* position of model_search
  selected          \* index of the model model_search returned

vars == <<disk, dirs, world, index, pc, exc, datasets_df, notes_df,
          skip_existing, skip_processing, todo, results, disk0, soxCalls,
          trimCalls, nruns, repeat, touched, call, workers, owner,
          clobbered, artifact, reload, succeeded, tpc, hold_out_set,
          max_files_per_class, max_epochs, param_write_freq, cancelled,
          datasets, training_df, epoch_count, batch_count, epoch_mean_loss,
          model_files, param_list, division, search_results, start_ind,
          end_ind, best_model, spc, selected>>

runvars == <<datasets_df, notes_df, skip_existing, skip_processing, todo,
             results, disk0, soxCalls, trimCalls, nruns, repeat>>

poolvars == <<workers, owner, clobbered>>

persistvars == <<artifact, reload, succeeded>>

trainvars == <<tpc, hold_out_set, max_files_per_class, max_epochs,
               param_write_freq, cancelled, datasets, training_df,
               epoch_count, batch_count, epoch_mean_loss, model_files>>

searchvars == <<param_list, division, search_results, start_ind, end_ind,
                best_model, spc, selected>>

\* No index file yet.
NoArtifact == [format |-> "none", frame |-> <<>>]

\* extract_notes has not been called.
PersistIdle ==
  /\ artifact = NoArtifact
  /\ reload = "none"
  /\ succeeded = "none"

\* train_model has not been called.
TrainIdle ==
  /\ tpc = "idle"
  /\ hold_out_set = [type |-> "list", value |-> <<>>]
  /\ max_files_per_class = 0
  /\ max_epochs = 0
  /\ param_write_freq = 0
  /\ cancelled = FALSE
  /\ datasets = {}
  /\ training_df = {}
  /\ epoch_count = 0
  /\ batch_count = 0
  /\ epoch_mean_loss = <<>>
  /\ model_files = {}

\* model_search has not been called.
SearchIdle ==
  /\ param_list = <<>>
  /\ division = "true"
  /\ search_results = {}
  /\ start_ind = 0
  /\ end_ind = 0
  /\ best_model = 0
  /\ spc = "idle"
  /\ selected = -1

NoCall == [op |-> "none"]
EmptyDisk == [p \in {} |-> Fits]

\* The originals of the catalog, on the data directory.
SourceDisk(orig) ==
  [p \in {Row[i].audio_file : i \in RowIds} |->
     IF p = Row["p1"].audio_file THEN orig ELSE Fits]

Init ==
  /\ \E orig \in Originals : disk = SourceDisk(orig)
  /\ dirs = {DataDir}
  /\ world \in Worlds
  /\ index = <<>>
  /\ pc = "idle"
  /\ exc = "none"
  /\ datasets_df = <<>>
  /\ notes_df = <<>>
  /\ skip_existing = FALSE
  /\ skip_processing = FALSE
  /\ todo = {}
  /\ results = <<>>
  /\ disk0 = EmptyDisk
  /\ soxCalls = 0
  /\ trimCalls = 0
  /\ nruns = 0
  /\ repeat = FALSE
  /\ touched = FALSE
  /\ call = NoCall
  /\ workers = <<>>
  /\ owner = <<>>
  /\ clobbered = {}
  /\ PersistIdle
  /\ TrainIdle
  /\ SearchIdle

\* ------------------------------------------------------- datasets_to_notes
Parents(df) == {df[k].parent : k \in 1..Len(df)}
FilesOf(df, i) == {df[k].rec.audio_file : k \in {j \in 1..Len(df) : df[j].parent = i}}

\* Variant that skips a row as soon as one of its files exists.
Worklist_any(cat, df, se, d) ==
  IF se /\ df # <<>>
  THEN {i \in Range(cat) :
          ~(i \in Parents(df) /\ \E f \in FilesOf(df, i) : exists(d, f))}
  ELSE Range(cat)

\* Variant that never skips a row.
Worklist_all(cat, df, se, d) == Range(cat)

\* The rows kept in bidx: the work-list of a run.
Worklist(cat, df, se, d) ==
  IF se /\ df # <<>>
  THEN {i \in Range(cat) :
          ~(i \in Parents(df) /\ \A f \in FilesOf(df, i) : exists(d, f))}
  ELSE Range(cat)

\* The records of the processed rows, in the order of the dataframe.
RECURSIVE Flatten(_, _)
Flatten(cat, res) ==
  IF cat = <<>> THEN <<>>
  ELSE (IF Head(cat) \in DOMAIN res THEN res[Head(cat)] ELSE <<>>)
       \o Flatten(Tail(cat), res)

\* Variant that returns the new records only.
concat_new(df, new) == new

\* pandas.concat([notes_df, pandas.DataFrame(records, index=indexes)])
concat(df, new) == df \o new

\* datasets_to_notes is called, first or on the index the previous call
\* returned: the work-list is selected.
StartRun(cat, se, sp) ==
  /\ pc \in {"idle", "returned"}
  /\ nruns < MaxRuns
  /\ pc' = "running"
  /\ exc' = "none"
  /\ datasets_df' = cat
  /\ notes_df' = index
  /\ skip_existing' = se
  /\ skip_processing' = sp
  /\ todo' = Worklist(cat, index, se, disk)
  /\ results' = <<>>
  /\ disk0' = disk
  /\ soxCalls' = 0
  /\ trimCalls' = 0
  /\ nruns' = nruns + 1
  /\ repeat' = (/\ pc = "returned" /\ ~touched /\ cat = datasets_df
                /\ se /\ skip_existing /\ sp = skip_processing)
  /\ touched' = FALSE
  /\ UNCHANGED <<disk, dirs, world, index, call>>
  /\ UNCHANGED poolvars
  /\ UNCHANGED <<persistvars, trainvars, searchvars>>

\* The paths on which a trim call of row i can fail, given what sox writes.
Trimmable(i, sox) ==
  IF i \in SplitRows
  THEN {join(Row[i].dataset, SoxName(Row[i].audio_file.name, k)) :
          k \in {j \in 1..Len(sox[1]) : sox[1][j] = Long}}
  ELSE {Row[i].audio_file}

\* What sox does for row i in this behaviour.
SoxOf(i) == IF i \in DOMAIN world THEN world[i] ELSE NoSox

\* A worker of the pool runs row_to_notes on a row of the work-list.
ProcessRow(i) ==
  /\ pc = "running"
  /\ i \in todo
  /\ \E trimFails \in SUBSET (IF skip_processing THEN {}
                                ELSE Trimmable(i, SoxOf(i))) :
       \E r \in {row_to_notes(disk, dirs, i, Row[i], min_voicing_duration,
                              skip_processing, max_duration,
                              SoxOf(i), trimFails)} :
          /\ disk' = r.disk
          /\ dirs' = r.dirs
          /\ soxCalls' = soxCalls + r.soxCalls
          /\ trimCalls' = trimCalls + r.trimCalls
          /\ IF r.exc = "none"
             THEN /\ results' = [j \in (DOMAIN results) \cup {i} |->
                                   IF j = i THEN r.results ELSE results[j]]
                  /\ todo' = todo \ {i}
                  /\ UNCHANGED <<pc, exc>>
             ELSE /\ pc' = "raised"
                  /\ exc' = r.exc
                  /\ UNCHANGED <<results, todo>>
  /\ UNCHANGED <<world, index, datasets_df, notes_df, skip_existing,
                 skip_processing, disk0, nruns, repeat, touched, call>>
  /\ UNCHANGED poolvars
  /\ UNCHANGED <<persistvars, trainvars, searchvars>>

\* The user cancels while the pool is at work: nothing catches the
\* KeyboardInterrupt, it leaves datasets_to_notes.
Interrupt ==
  /\ pc = "running"
  /\ todo # {}
  /\ pc' = "raised"
  /\ exc' = "KeyboardInterrupt"
  /\ UNCHANGED <<disk, dirs, world, index, touched, call>>
  /\ UNCHANGED runvars
  /\ UNCHANGED poolvars
  /\ UNCHANGED <<persistvars, trainvars, searchvars>>

\* All rows are done: the results are appended to the existing index.
Return ==
  /\ pc = "running"
  /\ todo = {}
  /\ pc' = "returned"
  /\ index' = concat(notes_df, Flatten(datasets_df, results))
  /\ UNCHANGED <<disk, dirs, world, exc, touched, call>>
  /\ UNCHANGED runvars
  /\ UNCHANGED poolvars
  /\ UNCHANGED <<persistvars, trainvars, searchvars>>

\* Between two runs a file of the extract directory, or a file the index
\* names, disappears.
LoseFile(p) ==
  /\ pc = "returned"
  /\ ~touched
  /\ nruns < MaxRuns
  /\ p \in DOMAIN disk
  /\ p.dir # DataDir \/ \E k \in 1..Len(index) : index[k].rec.audio_file = p
  /\ disk' = Remove(disk, {p})
  /\ touched' = TRUE
  /\ UNCHANGED <<dirs, world, index, pc, exc, call>>
  /\ UNCHANGED runvars
  /\ UNCHANGED poolvars
  /\ UNCHANGED <<persistvars, trainvars, searchvars>>

Next ==
  \/ \E s \in DOMAIN world, se \in BOOLEAN, sp \in BOOLEAN :
       \E cat \in Catalogs(s) : StartRun(cat, se, sp)
  \/ \E i \in RowIds : ProcessRow(i)
  \/ Interrupt
  \/ Return
  \/ \E p \in DOMAIN disk : LoseFile(p)

Spec == Init /\ [][Next]_vars

\* ------------------------------------------------- the functions on their own
\* Contents a file of the extract directory can have when a function is
\* called on its own, and that sox can write.
UnitKinds == {Short, Fits, Long, Broken("AssertionError")}

\* The disks a direct call starts from: the originals, with any files left
\* in the extract directory of recording s by earlier calls, or with any
\* philharmonia recording, or with a file of the name of the original in
\* the extract directory.
DiskWith(orig, old, c) ==
  [p \in (DOMAIN SourceDisk(orig)) \cup old |->
     IF p \in old THEN c[p] ELSE SourceDisk(orig)[p]]

UnitDisks(s) ==
  UNION {{DiskWith(Fits, old, c) : c \in [ClipPaths(s) -> UnitKinds]} :
         old \in SUBSET ClipPaths(s)}
  \cup {DiskWith(orig, {}, <<>>) :
          orig \in Originals \cup {Audio(0), Broken("wave.Error"),
                                   Broken("EOFError")}}
  \cup {Write(SourceDisk(orig),
               join(Row["p1"].dataset, basename(Row["p1"].audio_file)), Fits) :
          orig \in Originals}
  \cup {Write(SourceDisk(Fits),
               join(Row[s].dataset, basename(Row[s].audio_file)), Fits)}

\* The recordings the functions are called on directly.
UnitRows == {"r1", "u1", "u2"}

InitUnit ==
  /\ world \in UNION {[{s} -> {NoSox}] : s \in UnitRows}
  /\ \E s \in DOMAIN world : disk \in UnitDisks(s)
  /\ dirs = {p.dir : p \in DOMAIN disk}
  /\ index = <<>>
  /\ pc = "unit"
  /\ exc = "none"
  /\ datasets_df = <<>>
  /\ notes_df = <<>>
  /\ skip_existing = FALSE
  /\ skip_processing = FALSE
  /\ todo = {}
  /\ results = <<>>
  /\ disk0 = EmptyDisk
  /\ soxCalls = 0
  /\ trimCalls = 0
  /\ nruns = 0
  /\ repeat = FALSE
  /\ touched = FALSE
  /\ call = NoCall
  /\ workers = <<>>
  /\ owner = <<>>
  /\ clobbered = {}
  /\ PersistIdle
  /\ TrainIdle
  /\ SearchIdle

\* split_examples_with_count(input, output_dir, expected_count, ...)
CallSplitWithCount ==
  /\ pc = "unit"
  /\ \E i \in {j \in DOMAIN world : Row[j].dataset = "uiowa"},
        n \in 1..MaxClips, sp \in BOOLEAN, cs \in BOOLEAN,
        sox \in SoxOutcomes(UnitKinds, MaxClips) :
      /\ sp => sox = NoSox
      /\ \E r \in {split_examples_with_count(disk, dirs, Row[i].audio_file,
                                         Row[i].dataset, n,
                                         min_voicing_duration, sp, cs,
                                         sox)} :
           /\ disk' = r.disk
           /\ dirs' = r.dirs
           /\ call' = [op |-> "split_examples_with_count", row |-> i,
                       expected_count |-> n, skip_processing |-> sp,
                       files |-> r.files, exc |-> r.exc,
                       validated |-> r.validated, ready |-> r.ready,
                       soxCalls |-> r.soxCalls]
  /\ pc' = "done"
  /\ UNCHANGED <<world, index, exc, touched>>
  /\ UNCHANGED runvars
  /\ UNCHANGED poolvars
  /\ UNCHANGED <<persistvars, trainvars, searchvars>>

\* What sox can write when split_examples is called on its own: a clip too
\* short, a clip long enough, a file that cannot be converted and a file
\* that the wave module rejects.
SplitKinds == {Short, Fits, Broken("AssertionError"), Broken("wave.Error")}

\* split_examples(input, output_dir, ..., skip_processing, clean_state)
CallSplitExamples ==
  /\ pc = "unit"
  /\ \E i \in {j \in DOMAIN world : Row[j].dataset = "rwc"},
        sp \in BOOLEAN, cs \in BOOLEAN,
        sox \in SoxOutcomes(SplitKinds, MaxClips) :
      /\ sp => sox = NoSox
      /\ \E r \in {split_examples(disk, dirs, Row[i].audio_file,
                              Row[i].dataset, min_voicing_duration, sp, cs,
                              sox)} :
           /\ disk' = r.disk
           /\ dirs' = r.dirs
           /\ call' = [op |-> "split_examples", row |-> i,
                       skip_processing |-> sp, clean_state |-> cs,
                       sox |-> sox, before |-> disk,
                       files |-> r.files, exc |-> r.exc,
                       validated |-> r.validated, ready |-> r.ready,
                       soxCalls |-> r.soxCalls]
  /\ pc' = "done"
  /\ UNCHANGED <<world, index, exc, touched>>
  /\ UNCHANGED runvars
  /\ UNCHANGED poolvars
  /\ UNCHANGED <<persistvars, trainvars, searchvars>>

\* row_to_notes(index, original_audio_path, dataset, instrument, dynamic, ...)
CallRowToNotes ==
  /\ pc = "unit"
  /\ \E i \in (DOMAIN world) \cup {"p1"}, sp \in BOOLEAN,
        sox \in SoxOutcomes(UnitKinds, MaxClips) :
      /\ (sp \/ i \notin SplitRows) => sox = NoSox
      /\ \E trimFails \in SUBSET (IF sp THEN {} ELSE Trimmable(i, sox)) :
         \E r \in {row_to_notes(disk, dirs, i, Row[i], min_voicing_duration, sp,
                            max_duration, sox, trimFails)} :
           /\ disk' = r.disk
           /\ dirs' = r.dirs
           /\ call' = [op |-> "row_to_notes", row |-> i,
                       skip_processing |-> sp, trimFails |-> trimFails,
                       results |-> r.results, notes |-> r.notes,
                       exc |-> r.exc,
                       validated |-> r.validated, ready |-> r.ready,
                       soxCalls |-> r.soxCalls, trimCalls |-> r.trimCalls]
  /\ pc' = "done"
  /\ UNCHANGED <<world, index, exc, touched>>
  /\ UNCHANGED runvars
  /\ UNCHANGED poolvars
  /\ UNCHANGED <<persistvars, trainvars, searchvars>>

\* standardize_one(input_audio_path, output_dir, first_onset_start,
\*                 center_of_mass_alignment, final_duration)
CallStandardize ==
  /\ pc = "unit"
  /\ \E p \in DOMAIN disk, od \in {NoDir, "rwc", "uiowa", "philharmonia"},
        fos \in BOOLEAN, com \in BOOLEAN, trimOK \in BOOLEAN :
      \E r \in {standardize_one(disk, dirs, p, od, fos, com, max_duration,
                               trimOK)} :
        /\ disk' = r.disk
        /\ dirs' = r.dirs
        /\ call' = [op |-> "standardize_one", input |-> p,
                    output_dir |-> od, first_onset_start |-> fos,
                    center_of_mass_alignment |-> com, trimOK |-> trimOK,
                    ret |-> r.ret, exc |-> r.exc,
                    trimCalls |-> r.trimCalls, before |-> disk,
                    dirsBefore |-> dirs]
  /\ pc' = "done"
  /\ UNCHANGED <<world, index, exc, touched>>
  /\ UNCHANGED runvars
  /\ UNCHANGED poolvars
  /\ UNCHANGED <<persistvars, trainvars, searchvars>>

NextUnit ==
  \/ CallSplitExamples
  \/ CallSplitWithCount
  \/ CallRowToNotes
  \/ CallStandardize

SpecUnit == InitUnit /\ [][NextUnit]_vars

\* ------------------------------------------ the pool, one worker step a time
\* One call of datasets_to_notes on an empty extract directory, the workers
\* of the pool interleaved: a worker is at "begin", "split", "validate",
\* "notes" or "done" in row_to_notes, notes is its result_notes.
PoolKinds == {Fits, Long, Broken("wave.Error")}

\* The catalogs of the pool: two rwc recordings of which one name holds the
\* stem of the other, or a recording to split and a philharmonia note.
PoolCatalogs == {<<"r1", "r2">>, <<"r1", "p1">>, <<"u1", "p1">>}

NewWorker == [at |-> "begin", notes |-> <<>>]

\* The files among ps that a row other than i wrote.
Foreign(ow, i, ps) == {p \in ps : p \in DOMAIN ow /\ ow[p] # i}

\* The owners once row i has written ps and the disk is d.
Owners(ow, i, ps, d) ==
  [p \in ((DOMAIN ow) \cup ps) \cap (DOMAIN d) |->
     IF p \in ps THEN i ELSE ow[p]]

\* The files that d2 holds with a content d1 did not have there.
Written(d1, d2) ==
  {p \in DOMAIN d2 : p \notin DOMAIN d1 \/ d1[p] # d2[p]}

InitPool ==
  /\ datasets_df \in PoolCatalogs
  /\ world \in [Range(datasets_df) \cap SplitRows ->
                  SoxOutcomes(PoolKinds, MaxClips)]
  /\ disk = SourceDisk(Fits)
  /\ dirs = {DataDir}
  /\ index = <<>>
  /\ pc = "running"
  /\ exc = "none"
  /\ notes_df = <<>>
  /\ skip_existing = FALSE
  /\ skip_processing \in BOOLEAN
  /\ todo = Range(datasets_df)
  /\ results = <<>>
  /\ disk0 = disk
  /\ soxCalls = 0
  /\ trimCalls = 0
  /\ nruns = 1
  /\ repeat = FALSE
  /\ touched = FALSE
  /\ call = NoCall
  /\ workers = [i \in Range(datasets_df) |-> NewWorker]
  /\ owner = <<>>
  /\ clobbered = {}
  /\ PersistIdle
  /\ TrainIdle
  /\ SearchIdle

\* row_to_notes up to the cleaning of split_examples: a philharmonia row
\* takes its original as the only note; a row to split lists the files of
\* its stem in the output directory and, when processing, removes them.
WorkerBegin(i) ==
  /\ pc = "running"
  /\ i \in DOMAIN workers
  /\ workers[i].at = "begin"
  /\ IF i \notin SplitRows
     THEN /\ workers' = [workers EXCEPT ![i] =
                           [at |-> "notes", notes |-> <<Row[i].audio_file>>]]
          /\ UNCHANGED <<disk, dirs, owner, clobbered>>
     ELSE \E old \in {IF skip_processing THEN {}
                      ELSE StemFiles(disk, Row[i].audio_file,
                                     Row[i].dataset)} :
            /\ disk' = Remove(disk, old)
            /\ dirs' = create_directory(dirs, Row[i].dataset)
            /\ clobbered' = clobbered \cup Foreign(owner, i, old)
            /\ owner' = Owners(owner, i, {}, disk')
            /\ workers' = [workers EXCEPT ![i].at =
                             IF skip_processing THEN "validate" ELSE "split"]
  /\ UNCHANGED <<world, index, pc, exc, touched, call>>
  /\ UNCHANGED runvars
  /\ UNCHANGED <<persistvars, trainvars, searchvars>>

\* The call of claudio.sox.split_along_silence of split_examples.
WorkerSplit(i) ==
  /\ pc = "running"
  /\ i \in DOMAIN workers
  /\ workers[i].at = "split"
  /\ \E r \in {split_along_silence(disk, join(Row[i].dataset,
                                              basename(Row[i].audio_file)),
                                   world[i])} :
       /\ disk' = r.disk
       /\ clobbered' = clobbered \cup Foreign(owner, i, Written(disk, r.disk))
       /\ owner' = Owners(owner, i, Written(disk, r.disk), r.disk)
       /\ workers' = [workers EXCEPT ![i].at =
                        IF r.ok THEN "validate" ELSE "notes"]
  /\ soxCalls' = soxCalls + 1
  /\ UNCHANGED <<dirs, world, index, pc, exc, touched, call, datasets_df,
                 notes_df, skip_existing, skip_processing, todo, results,
                 disk0, trimCalls, nruns, repeat>>
  /\ UNCHANGED <<persistvars, trainvars, searchvars>>

\* The validation loop of split_examples and, for a uiowa recording with a
\* note count, the count test of split_examples_with_count.
WorkerValidate(i) ==
  /\ pc = "running"
  /\ i \in DOMAIN workers
  /\ workers[i].at = "validate"
  /\ \E v \in {Validate(Listed(StemFiles(disk, Row[i].audio_file,
                                         Row[i].dataset)),
                        disk, <<>>, min_voicing_duration)},
        n \in {get_num_notes_from_uiowa_filename(Row[i].audio_file)} :
       \E reject \in {Row[i].dataset = "uiowa" /\ n # 0 /\ v.exc = "none"
                      /\ Len(v.files) # n} :
         /\ disk' = IF reject THEN Remove(v.disk, Range(v.files)) ELSE v.disk
         /\ clobbered' = clobbered
                           \cup Foreign(owner, i, (DOMAIN disk) \ DOMAIN disk')
         /\ owner' = Owners(owner, i, {}, disk')
         /\ IF v.exc = "none"
            THEN /\ workers' = [workers EXCEPT ![i] =
                                  [at |-> "notes",
                                   notes |-> IF reject THEN <<>> ELSE v.files]]
                 /\ UNCHANGED <<pc, exc>>
            ELSE /\ pc' = "raised"
                 /\ exc' = v.exc
                 /\ UNCHANGED workers
  /\ UNCHANGED <<dirs, world, index, touched, call>>
  /\ UNCHANGED runvars
  /\ UNCHANGED <<persistvars, trainvars, searchvars>>

\* The loop of row_to_notes over result_notes.
WorkerNotes(i) ==
  /\ pc = "running"
  /\ i \in DOMAIN workers
  /\ workers[i].at = "notes"
  /\ \E trimFails \in {{}, Range(workers[i].notes)} :
       \E r \in {NotesLoop(workers[i].notes, Row[i], Row[i].dataset,
                           skip_processing, max_duration, trimFails,
                           [results |-> <<>>, exc |-> "none", disk |-> disk,
                            dirs |-> dirs, soxCalls |-> 0, trimCalls |-> 0,
                            validated |-> FALSE, ready |-> 0,
                            notes |-> workers[i].notes],
                           i)} :
         /\ disk' = r.disk
         /\ dirs' = r.dirs
         /\ trimCalls' = trimCalls + r.trimCalls
         /\ clobbered' = clobbered
                           \cup Foreign(owner, i, Written(disk, r.disk))
         /\ owner' = Owners(owner, i, Written(disk, r.disk), r.disk)
         /\ IF r.exc = "none"
            THEN /\ results' = [j \in (DOMAIN results) \cup {i} |->
                                  IF j = i THEN r.results ELSE results[j]]
                 /\ todo' = todo \ {i}
                 /\ workers' = [workers EXCEPT ![i].at = "done"]
                 /\ UNCHANGED <<pc, exc>>
            ELSE /\ pc' = "raised"
                 /\ exc' = r.exc
                 /\ UNCHANGED <<results, todo, workers>>
  /\ UNCHANGED <<world, index, datasets_df, notes_df, skip_existing,
                 skip_processing, disk0, soxCalls, nruns, repeat, touched,
                 call>>
  /\ UNCHANGED <<persistvars, trainvars, searchvars>>

NextPool ==
  \/ \E i \in RowIds : WorkerBegin(i)
  \/ \E i \in RowIds : WorkerSplit(i)
  \/ \E i \in RowIds : WorkerValidate(i)
  \/ \E i \in RowIds : WorkerNotes(i)
  \/ Return

SpecPool == InitPool /\ [][NextPool]_vars

\* ------------------------------------------------------------ extract_notes
\* pandas.read_json(notes_df_path): the frame of a JSON file; a pickle is
\* not JSON and the call raises.
read_json(file) ==
  IF file.format = "json" THEN [exc |-> "none", frame |-> file.frame]
  ELSE [exc |-> "ValueError", frame |-> <<>>]

\* notes_df.to_pickle(notes_df_path)
to_pickle(frame) == [format |-> "pickle", frame |-> frame]

\* What pandas.read_pickle(notes_df_path) does on the file just written: it
\* returns, or it raises; a damaged pickle raises a ValueError or, when the
\* file is truncated, an EOFError.
ReloadOutcomes == {"ok", "ValueError", "EOFError"}

\* What the user does in the debugger pdb.set_trace() opens: continue, or
\* quit, which raises BdbQuit.
DebuggerOutcomes == {"continue", "quit"}

\* The index file is absent, or is one an earlier version of the program
\* saved as JSON (the to_json calls of extract_notes), here an empty one.
InitPersist ==
  /\ \E orig \in Originals : disk = SourceDisk(orig)
  /\ dirs = {DataDir}
  /\ world \in Worlds
  /\ index = <<>>
  /\ pc = "idle"
  /\ exc = "none"
  /\ datasets_df = <<>>
  /\ notes_df = <<>>
  /\ skip_existing = FALSE
  /\ skip_processing = FALSE
  /\ todo = {}
  /\ results = <<>>
  /\ disk0 = EmptyDisk
  /\ soxCalls = 0
  /\ trimCalls = 0
  /\ nruns = 0
  /\ repeat = FALSE
  /\ touched = FALSE
  /\ call = NoCall
  /\ workers = <<>>
  /\ owner = <<>>
  /\ clobbered = {}
  /\ artifact \in {NoArtifact, [format |-> "json", frame |-> <<>>]}
  /\ reload = "none"
  /\ succeeded = "none"
  /\ TrainIdle
  /\ SearchIdle

\* extract_notes up to the pool of datasets_to_notes: the existing index is
\* read with read_json when skip_existing and the file exists, and the
\* work-list is selected (StartRun); ProcessRow and Return do the rest of
\* datasets_to_notes.
ExtractLoad(se, sp) ==
  /\ pc = "idle" \/ (pc = "returned" /\ succeeded # "none")
  /\ nruns < MaxRuns
  /\ nruns' = nruns + 1
  /\ skip_existing' = se
  /\ skip_processing' = sp
  /\ reload' = "none"
  /\ succeeded' = "none"
  /\ \E cat \in {<<s, "p1">> : s \in DOMAIN world},
        r \in {IF se /\ artifact.format # "none" THEN read_json(artifact)
               ELSE [exc |-> "none", frame |-> <<>>]} :
       /\ datasets_df' = cat
       /\ notes_df' = r.frame
       /\ exc' = r.exc
       /\ pc' = IF r.exc = "none" THEN "running" ELSE "raised"
       /\ todo' = Worklist(cat, r.frame, se, disk)
  /\ results' = <<>>
  /\ disk0' = disk
  /\ soxCalls' = 0
  /\ trimCalls' = 0
  /\ repeat' = FALSE
  /\ UNCHANGED <<disk, dirs, world, index, touched, call, artifact>>
  /\ UNCHANGED <<poolvars, trainvars, searchvars>>

\* notes_df.to_pickle(notes_df_path), once datasets_to_notes has returned.
ExtractSave ==
  /\ pc = "returned"
  /\ nruns > 0
  /\ succeeded = "none"
  /\ artifact' = to_pickle(index)
  /\ pc' = "saved"
  /\ UNCHANGED <<disk, dirs, world, index, exc, touched, call, reload,
                 succeeded>>
  /\ UNCHANGED <<runvars, poolvars, trainvars, searchvars>>

\* The file is read back: True when read_pickle returns; on a ValueError
\* the debugger opens and False is returned once the user continues; any
\* other exception, and the BdbQuit of a debugger that is quit, leave
\* extract_notes.
ExtractCheck ==
  /\ pc = "saved"
  /\ \E out \in ReloadOutcomes, dbg \in DebuggerOutcomes :
       /\ reload' = out
       /\ IF out = "ok"
          THEN /\ succeeded' = "True"
               /\ pc' = "returned"
               /\ UNCHANGED exc
          ELSE IF out = "ValueError" /\ dbg = "continue"
          THEN /\ succeeded' = "False"
               /\ pc' = "returned"
               /\ UNCHANGED exc
          ELSE /\ pc' = "raised"
               /\ exc' = IF out = "ValueError" THEN "BdbQuit" ELSE out
               /\ UNCHANGED succeeded
  /\ UNCHANGED <<disk, dirs, world, index, touched, call, artifact>>
  /\ UNCHANGED <<runvars, poolvars, trainvars, searchvars>>

NextPersist ==
  \/ \E se \in BOOLEAN, sp \in BOOLEAN : ExtractLoad(se, sp)
  \/ \E i \in RowIds : ProcessRow(i)
  \/ Return
  \/ ExtractSave
  \/ ExtractCheck

SpecPersist == InitPersist /\ [][NextPersist]_vars

\* -------------------------------------------------------------- train_model
\* A Python str is a sequence of characters, and a character is a str of
\* length one.
RWC == <<"r", "w", "c">>
UIOWA == <<"u", "i", "o", "w", "a">>
PHILHARMONIA ==
  <<"p", "h", "i", "l", "h", "a", "r", "m", "o", "n", "i", "a">>

\* set(x): the characters of a str, the items of a list.
set(x) ==
  IF x.type = "str" THEN {<<x.value[i]>> : i \in 1..Len(x.value)}
  ELSE Range(x.value)

\* features_df: the dataset and the instrument of every note.
features_df ==
  <<[dataset |-> RWC, instrument |-> "piano"],
    [dataset |-> RWC, instrument |-> "flute"],
    [dataset |-> UIOWA, instrument |-> "piano"],
    [dataset |-> UIOWA, instrument |-> "flute"],
    [dataset |-> PHILHARMONIA, instrument |-> "flute"]>>

\* The values hold_out_set is given: a dataset name or a list of names.
HoldOutSets ==
  {[type |-> "str", value |-> RWC],
   [type |-> "list", value |-> <<RWC>>],
   [type |-> "list", value |-> <<RWC, UIOWA>>]}

\* features_df["dataset"].unique()
unique == {features_df[k].dataset : k \in 1..Len(features_df)}

\* construct_training_df sampling every instrument from features_df instead
\* of search_df.
construct_training_df_unfiltered(ds, n) ==
  IF n # 0
  THEN LET search_df == {k \in 1..Len(features_df) :
                           features_df[k].dataset \in ds}
           instruments == {features_df[k].instrument : k \in search_df}
           of(i) == {k \in 1..Len(features_df) :
                       features_df[k].instrument = i}
           samples(i) == {c \in SUBSET of(i) : Cardinality(c) = n}
       IN {UNION {f[i] : i \in instruments} :
             f \in {g \in [instruments -> SUBSET (1..Len(features_df))] :
                      \A i \in instruments : g[i] \in samples(i)}}
  ELSE {1..Len(features_df)}

\* construct_training_df: the dataframes (sets of rows of features_df) it
\* can return, one per outcome of the sampling; the empty set when sample
\* raises ValueError because an instrument has fewer than n rows.
construct_training_df(ds, n) ==
  IF n # 0
  THEN LET search_df == {k \in 1..Len(features_df) :
                           features_df[k].dataset \in ds}
           instruments == {features_df[k].instrument : k \in search_df}
           of(i) == {k \in search_df : features_df[k].instrument = i}
           samples(i) == {c \in SUBSET of(i) : Cardinality(c) = n}
       IN {UNION {f[i] : i \in instruments} :
             f \in {g \in [instruments -> SUBSET search_df] :
                      \A i \in instruments : g[i] \in samples(i)}}
  ELSE {1..Len(features_df)}

\* epoch_length, with t_len and batch_size such that a row counts for a
\* batch.
epoch_length == Cardinality(training_df)

ConfigFile == "config.yaml"
FinalParams == "params/final.npz"

InitTrain ==
  /\ disk = EmptyDisk
  /\ dirs = {}
  /\ world = <<>>
  /\ index = <<>>
  /\ pc = "idle"
  /\ exc = "none"
  /\ datasets_df = <<>>
  /\ notes_df = <<>>
  /\ skip_existing = FALSE
  /\ skip_processing = FALSE
  /\ todo = {}
  /\ results = <<>>
  /\ disk0 = EmptyDisk
  /\ soxCalls = 0
  /\ trimCalls = 0
  /\ nruns = 0
  /\ repeat = FALSE
  /\ touched = FALSE
  /\ call = NoCall
  /\ workers = <<>>
  /\ owner = <<>>
  /\ clobbered = {}
  /\ PersistIdle
  /\ tpc = "setup"
  /\ hold_out_set \in HoldOutSets
  /\ max_files_per_class \in 0..2
  /\ max_epochs \in 0..MaxEpochs
  /\ param_write_freq \in 0..1
  /\ cancelled = FALSE
  /\ datasets = {}
  /\ training_df = {}
  /\ epoch_count = 0
  /\ batch_count = 0
  /\ epoch_mean_loss = <<>>
  /\ model_files = {}
  /\ SearchIdle

\* What train_model leaves alone.
nottrain == <<disk, dirs, world, index, pc, touched, call, datasets_df,
              notes_df, skip_existing, skip_processing, todo, results,
              disk0, soxCalls, trimCalls, nruns, repeat, workers, owner,
              clobbered, artifact, reload, succeeded, param_list, division,
              search_results, start_ind, end_ind, best_model, spc, selected>>

\* train_model up to the training loop: the datasets to train on, the
\* training dataframe, the saved config.
TrainSetup ==
  /\ tpc = "setup"
  /\ datasets' = unique \ set(hold_out_set)
  /\ \E dfs \in {construct_training_df(datasets', max_files_per_class)} :
       IF dfs = {}
       THEN /\ tpc' = "raised"
            /\ exc' = "ValueError"
            /\ UNCHANGED <<training_df, model_files>>
       ELSE /\ training_df' \in dfs
            /\ model_files' = model_files \cup {ConfigFile}
            /\ tpc' = "loop"
            /\ UNCHANGED exc
  /\ epoch_count' = 0
  /\ epoch_mean_loss' = <<>>
  /\ UNCHANGED <<hold_out_set, max_files_per_class, max_epochs,
                 param_write_freq, cancelled, batch_count>>
  /\ UNCHANGED nottrain

\* `while epoch_count < max_epochs`: an epoch begins, or the loop ends.
EpochBegin ==
  /\ tpc = "loop"
  /\ IF epoch_count < max_epochs
     THEN /\ batch_count' = 0
          /\ tpc' = "batch"
     ELSE /\ tpc' = "final"
          /\ UNCHANGED batch_count
  /\ UNCHANGED <<hold_out_set, max_files_per_class, max_epochs,
                 param_write_freq, cancelled, datasets, training_df,
                 epoch_count, epoch_mean_loss, model_files, exc>>
  /\ UNCHANGED nottrain

\* One batch of the streamer is trained on.
TrainBatch ==
  /\ tpc = "batch"
  /\ batch_count' = batch_count + 1
  /\ tpc' = IF batch_count' >= epoch_length THEN "epoch_end" ELSE "batch"
  /\ UNCHANGED <<hold_out_set, max_files_per_class, max_epochs,
                 param_write_freq, cancelled, datasets, training_df,
                 epoch_count, epoch_mean_loss, model_files, exc>>
  /\ UNCHANGED nottrain

\* The mean loss of the epoch is recorded and the parameters are saved when
\* the epoch is one to write.
EpochEnd ==
  /\ tpc = "epoch_end"
  /\ epoch_mean_loss' = Append(epoch_mean_loss, epoch_count)
  /\ model_files' =
       IF param_write_freq # 0 /\ epoch_count % param_write_freq = 0
       THEN model_files \cup {"params/params"}
       ELSE model_files
  /\ epoch_count' = epoch_count + 1
  /\ tpc' = "loop"
  /\ UNCHANGED <<hold_out_set, max_files_per_class, max_epochs,
                 param_write_freq, cancelled, datasets, training_df,
                 batch_count, exc>>
  /\ UNCHANGED nottrain

\* KeyboardInterrupt inside the try block: caught, the loop is left.
TrainInterrupt ==
  /\ tpc \in {"loop", "batch", "epoch_end"}
  /\ cancelled' = TRUE
  /\ tpc' = "final"
  /\ UNCHANGED <<hold_out_set, max_files_per_class, max_epochs,
                 param_write_freq, datasets, training_df, epoch_count,
                 batch_count, epoch_mean_loss, model_files, exc>>
  /\ UNCHANGED nottrain

\* After the loop: epoch_mean_loss[-1] is printed, then the final model is
\* saved.
TrainFinal ==
  /\ tpc = "final"
  /\ IF epoch_mean_loss = <<>>
     THEN /\ tpc' = "raised"
          /\ exc' = "IndexError"
          /\ UNCHANGED model_files
     ELSE /\ model_files' = model_files \cup {FinalParams}
          /\ tpc' = "returned"
          /\ UNCHANGED exc
  /\ UNCHANGED <<hold_out_set, max_files_per_class, max_epochs,
                 param_write_freq, cancelled, datasets, training_df,
                 epoch_count, batch_count, epoch_mean_loss>>
  /\ UNCHANGED nottrain

NextTrain ==
  \/ TrainSetup
  \/ EpochBegin
  \/ TrainBatch
  \/ EpochEnd
  \/ TrainInterrupt
  \/ TrainFinal

SpecTrain == InitTrain /\ [][NextTrain]_vars

\* ------------------------------------------- BinarySearchModelSelector
\* BinarySearchModelSelector.compare_models on the mean_acc of two evaluated
\* models: positive when the right one is best, negative when the left is.
compare_models(model_a, model_b) == IF model_b > model_a THEN 1 ELSE -1

\* np.int(np.round((end_ind + start_ind) / 2)): `/` floors two ints under
\* Python 2; under Python 3 it is exact and np.round takes a half to the
\* even neighbour.
new_ind(start, end) ==
  LET q == (end + start) \div 2
  IN IF (end + start) % 2 = 0 \/ division = "floor" THEN q
     ELSE IF q % 2 = 0 THEN q ELSE q + 1

\* A selector on a non-empty list of parameter files, sorted by iteration.
InitSearch ==
  /\ disk = EmptyDisk
  /\ dirs = {}
  /\ world = <<>>
  /\ index = <<>>
  /\ pc = "idle"
  /\ exc = "none"
  /\ datasets_df = <<>>
  /\ notes_df = <<>>
  /\ skip_existing = FALSE
  /\ skip_processing = FALSE
  /\ todo = {}
  /\ results = <<>>
  /\ disk0 = EmptyDisk
  /\ soxCalls = 0
  /\ trimCalls = 0
  /\ nruns = 0
  /\ repeat = FALSE
  /\ touched = FALSE
  /\ call = NoCall
  /\ workers = <<>>
  /\ owner = <<>>
  /\ clobbered = {}
  /\ PersistIdle
  /\ TrainIdle
  /\ \E n \in 1..MaxParams : param_list \in [0..(n - 1) -> 0..MaxAcc]
  /\ division \in {"true", "floor"}
  /\ search_results = {}
  /\ start_ind = 0
  /\ end_ind = Cardinality(DOMAIN param_list) - 1
  /\ best_model = 0
  /\ spc = "search"
  /\ selected = -1

\* What model_search leaves alone.
notsearch == <<disk, dirs, world, index, pc, touched, call, workers, owner,
               clobbered, runvars, persistvars, trainvars>>

\* One iteration of `while start_ind != end_ind`: both ends are evaluated
\* unless they have been, compared, and the interval is narrowed.
SearchStep ==
  /\ spc = "search"
  /\ start_ind # end_ind
  /\ search_results' = search_results \cup {start_ind, end_ind}
  /\ best_model' = compare_models(param_list[start_ind], param_list[end_ind])
  /\ IF (end_ind - start_ind) > 1
     THEN IF best_model' >= 0
          THEN /\ start_ind' = new_ind(start_ind, end_ind)
               /\ end_ind' = end_ind
          ELSE /\ start_ind' = start_ind
               /\ end_ind' = new_ind(start_ind, end_ind)
     ELSE /\ start_ind' = new_ind(start_ind, end_ind)
          /\ end_ind' = new_ind(start_ind, end_ind)
  /\ UNCHANGED <<param_list, division, spc, selected, exc>>
  /\ UNCHANGED notsearch

\* After the loop: `return ..., results[start_ind]`.
SearchReturn ==
  /\ spc = "search"
  /\ start_ind = end_ind
  /\ IF start_ind \in search_results
     THEN /\ selected' = start_ind
          /\ spc' = "returned"
          /\ UNCHANGED exc
     ELSE /\ spc' = "raised"
          /\ exc' = "KeyError"
          /\ UNCHANGED selected
  /\ UNCHANGED <<param_list, division, search_results, start_ind, end_ind,
                 best_model>>
  /\ UNCHANGED notsearch

NextSearch ==
  \/ SearchStep
  \/ SearchReturn

SpecSearch == InitSearch /\ [][NextSearch]_vars

\* ================================================================== claims
HasEntry(df, i) == \E k \in 1..Len(df) : df[k].parent = i
EntriesOf(df, i) == SelectSeq(df, LAMBDA e : e.parent = i)
FilesExist(df, i, d) ==
  \A k \in 1..Len(df) : df[k].parent = i => df[k].rec.audio_file \in DOMAIN d
\* The rows datasets_to_notes has to skip in the current run.
Skipped(i) ==
  /\ skip_existing
  /\ notes_df # <<>>
  /\ HasEntry(notes_df, i)
  /\ FilesExist(notes_df, i, disk0)
\* The entries the current run produced.
NewEntries == Flatten(datasets_df, results)
\* The last call was a count-checked split: of split_examples_with_count, or
\* of row_to_notes on the uiowa row whose name encodes a count.
CountedCall ==
  \/ call.op = "split_examples_with_count"
  \/ call.op = "row_to_notes" /\ call.row = "u1"
ExpectedCount ==
  IF call.op = "split_examples_with_count" THEN call.expected_count
  ELSE get_num_notes_from_uiowa_filename(Row["u1"].audio_file)
Returned == IF call.op = "row_to_notes" THEN call.results ELSE call.files
Residue ==
  {p \in DOMAIN disk :
     /\ p.dir = Row[call.row].dataset
     /\ Infix(filebase(Row[call.row].audio_file.name), p.name)
     /\ p.name # Row[call.row].audio_file.name}

\* C1 (as stated): after a count-checked split that leaves M # N validated
\* clips the result is empty (its length is always N or 0), the row yields no
\* record, and no file carrying the stem of the row remains in the output
\* directory.
C1_CountMismatchLeavesNothing ==
  (pc = "done" /\ CountedCall /\ call.exc = "none") =>
     /\ call.op = "split_examples_with_count" =>
          Len(call.files) \in {0, ExpectedCount}
     /\ call.ready # ExpectedCount => (Returned = <<>> /\ Residue = {})

\* C1 (amended): the result is empty and the row yields no record whenever
\* M # N; no file carrying the stem remains when the segmentation call
\* reported success or was skipped, so that the validation pass ran.
C1_CountMismatchRejects ==
  (pc = "done" /\ CountedCall /\ call.exc = "none") =>
     /\ call.op = "split_examples_with_count" =>
          Len(call.files) \in {0, ExpectedCount}
     /\ call.ready # ExpectedCount => Returned = <<>>
     /\ (call.ready # ExpectedCount /\ call.validated) => Residue = {}

\* C1 witness: row_to_notes on the uiowa row found one valid clip where two
\* are expected, deleted it and returned no record.
C1_Witness ==
  /\ pc = "done" /\ call.op = "row_to_notes" /\ call.row = "u1"
  /\ call.exc = "none" /\ call.validated /\ call.soxCalls = 1
  /\ call.ready = 1 /\ call.results = <<>> /\ Residue = {}

\* C2: the rows a run processes are exactly the rows of the catalog that are
\* not skipped; a row is skipped iff skip_existing is set, the existing index
\* is not empty, the row has an entry in it and all files of its entries
\* exist when the run starts.
C2_WorklistSelection ==
  /\ pc \in {"running", "returned", "raised"} =>
       todo \cup DOMAIN results = {i \in Range(datasets_df) : ~Skipped(i)}
  /\ pc = "returned" =>
       DOMAIN results = {i \in Range(datasets_df) : ~Skipped(i)}

\* C2 witness: a run returned that skipped one row whose files were all
\* there and processed another row that had entries but a missing file.
C2_Witness ==
  /\ pc = "returned" /\ skip_existing
  /\ \E i \in Range(datasets_df) :
       HasEntry(notes_df, i) /\ i \notin DOMAIN results
  /\ \E i \in Range(datasets_df) :
       HasEntry(notes_df, i) /\ i \in DOMAIN results

\* C3 (as stated): a run that repeats the previous run (same catalog, same
\* parameters, skip_existing set, disk untouched in between) returns an index
\* with the same set of entries and makes no segmentation call.
C3_RepeatIsIdle ==
  (pc = "returned" /\ repeat) =>
     /\ soxCalls = 0
     /\ Range(index) = Range(notes_df)

\* C3 (amended): the same, when every row of the catalog has an entry in the
\* index of the first run and the files of its entries exist.
C3_RepeatOfCompleteRunIsIdle ==
  (/\ pc = "returned" /\ repeat
   /\ \A i \in Range(datasets_df) :
        HasEntry(notes_df, i) /\ FilesExist(notes_df, i, disk0)) =>
     /\ soxCalls = 0
     /\ Range(index) = Range(notes_df)

\* C3 witness: a repeated run over a catalog with a recording to split, all
\* of whose rows have entries and files, has returned.
C3_Witness ==
  /\ pc = "returned" /\ repeat /\ Len(datasets_df) = 2 /\ ~skip_processing
  /\ \A i \in Range(datasets_df) :
       HasEntry(notes_df, i) /\ FilesExist(notes_df, i, disk0)
  /\ index = notes_df

\* C4: a parent that is not in the work-list of a run has in the returned
\* index exactly the entries it had in the existing index, in order.
C4_UntouchedParentsUnchanged ==
  pc = "returned" =>
    \A i \in (Parents(notes_df) \cup Parents(index) \cup RowIds)
             \ DOMAIN results :
      EntriesOf(index, i) = EntriesOf(notes_df, i)

\* C4 witness: a run returned that skipped a row with entries, processed the
\* other row of its catalog and added entries for it.
C4_Witness ==
  /\ pc = "returned" /\ skip_existing
  /\ \E i \in Range(datasets_df) :
       /\ i \notin DOMAIN results
       /\ EntriesOf(notes_df, i) # <<>>
  /\ Len(index) > Len(notes_df)

\* C5 (as stated): every entry of a returned index names a file that exists.
C5_IndexFilesExist ==
  pc = "returned" =>
    \A k \in 1..Len(index) : index[k].rec.audio_file \in DOMAIN disk

\* C6 (as stated): a run cancelled by the user returns the existing index
\* with the records of the rows completed so far.
C6_InterruptReturnsPartial ==
  exc = "KeyboardInterrupt" =>
    /\ pc = "returned"
    /\ index = notes_df \o NewEntries

\* C7 (as stated): every parent key of a returned index is the id of a row of
\* the catalog of that run.
C7_ParentInCatalog ==
  pc = "returned" =>
    \A k \in 1..Len(index) : index[k].parent \in Range(datasets_df)

\* C7 (amended): every parent key of a returned index is the id of a row of
\* the catalog of that run or a parent key of the existing index given to it.
C7_ParentInCatalogOrExisting ==
  pc = "returned" =>
    \A k \in 1..Len(index) :
      index[k].parent \in Range(datasets_df) \cup Parents(notes_df)

\* C7 witness: a returned index holds an entry the run added and an entry of
\* a parent that is not in the catalog of the run.
C7_Witness ==
  /\ pc = "returned"
  /\ Len(index) > Len(notes_df)
  /\ \E k \in 1..Len(index) : index[k].parent \notin Range(datasets_df)

\* C8 (as stated): the file of every record a run produces is a readable file
\* no longer than max_duration.
C8_RecordsWithinMaxDuration ==
  pc = "returned" =>
    \A k \in 1..Len(NewEntries) :
      LET f == NewEntries[k].rec.audio_file
      IN f \in DOMAIN disk => (disk[f].kind = "audio"
                               /\ disk[f].dur <= max_duration)

\* The last call was standardize_one without the unsupported options, on a
\* readable file of non-zero duration.
StdCall ==
  /\ pc = "done" /\ call.op = "standardize_one"
  /\ ~call.first_onset_start /\ ~call.center_of_mass_alignment
  /\ call.before[call.input].kind = "audio"
  /\ call.before[call.input].dur > 0

\* C9: standardize_one on a clip no longer than final_duration returns the
\* input path, calls no trim, creates no directory and writes no file.
C9_StandardizeNoOp ==
  (StdCall /\ call.before[call.input].dur <= max_duration) =>
     /\ call.exc = "none"
     /\ call.ret = call.input
     /\ call.trimCalls = 0
     /\ dirs = call.dirsBefore
     /\ disk = call.before

\* C9 witness: standardize_one returned the input path of a clip of exactly
\* the final duration, with an output directory that does not exist.
C9_Witness ==
  /\ StdCall /\ call.before[call.input].dur = max_duration
  /\ call.output_dir # NoDir /\ call.output_dir \notin call.dirsBefore
  /\ call.ret = call.input

\* C10 (as stated): standardize_one on a clip longer than final_duration
\* whose trim fails returns the input path, with or without output_dir.
C10_TrimFailureKeepsInput ==
  (StdCall /\ call.before[call.input].dur > max_duration
           /\ ~call.trimOK) =>
     /\ call.exc = "none"
     /\ call.ret = call.input


\* C11: no failure of the external tools on one row is fatal: a call of
\* datasets_to_notes never ends with an exception a worker raised on a
\* candidate it could not open (only the user's interrupt ends it early).
C11_NoRowFailureIsFatal ==
  pc = "raised" => exc = "KeyboardInterrupt"


\* A direct call of row_to_notes that returned.
RowCall == call.op = "row_to_notes" /\ call.exc = "none"

\* The note count the name of the row of the call encodes.
RowCount == get_num_notes_from_uiowa_filename(Row[call.row].audio_file)

\* The row of the call is split with an expected count.
Counted == Row[call.row].dataset = "uiowa" /\ RowCount # 0

\* C12: dispatch of row_to_notes. A uiowa row whose name encodes N notes
\* keeps its candidates only when exactly N were validated; an rwc row or a
\* uiowa row without a count keeps however many were validated; a row of
\* another dataset has its original as sole candidate, and its call runs no
\* segmentation and deletes no file.
C12_Dispatch ==
  /\ [](RowCall =>
          /\ Counted =>
               /\ call.ready = RowCount => Len(call.notes) = RowCount
               /\ call.ready # RowCount => call.notes = <<>>
          /\ (call.row \in SplitRows /\ ~Counted) =>
               Len(call.notes) = call.ready
          /\ call.row \notin SplitRows =>
               /\ call.notes = <<Row[call.row].audio_file>>
               /\ call.soxCalls = 0
               /\ ~call.validated)
  /\ [][(call'.op = "row_to_notes" /\ call'.row \notin SplitRows) =>
          (DOMAIN disk) \subseteq (DOMAIN disk')]_vars

\* A uiowa row without a count kept a number of clips its neighbour's count
\* would have rejected.
C12_Witness ==
  /\ RowCall
  /\ call.row = "u2"
  /\ call.soxCalls = 1
  /\ Len(call.notes) = 1
  /\ Len(call.results) = 1


\* C13: an rwc row, split without an expected count, whose k validated clips
\* all standardize, yields exactly k entries, all under the row id, in the
\* order the splitter returned the clips.
C13_OneEntryPerClip ==
  (RowCall /\ Row[call.row].dataset = "rwc") =>
    /\ Len(call.results) = call.ready
    /\ Len(call.results) = Len(call.notes)
    /\ \A j \in 1..Len(call.results) :
         /\ call.results[j].parent = call.row
         /\ call.results[j].child
              = generate_id(Row[call.row].dataset, call.notes[j])
         /\ call.results[j].rec.audio_file = call.notes[j]

\* sox wrote as many clips as the model allows, all validated, one trimmed.
C13_Witness ==
  /\ RowCall
  /\ Row[call.row].dataset = "rwc"
  /\ call.soxCalls = 1
  /\ call.trimCalls = 1
  /\ call.ready = MaxClips
  /\ Len(call.results) = MaxClips
  /\ call.results[1] # call.results[2]


\* The original of the philharmonia row and the copy standardize_one trims
\* it to.
PhilOriginal == Row["p1"].audio_file
PhilCopy == join(Row["p1"].dataset, basename(PhilOriginal))

\* C14: a philharmonia row whose recording opens yields exactly one record;
\* its audio_file is the original when the recording lasts at most
\* max_duration and a copy of max_duration under the extract directory, same
\* basename, when it lasts longer.
C14_PhilharmoniaOneRecord ==
  (/\ RowCall
   /\ call.row = "p1"
   /\ ~call.skip_processing
   /\ AudioFile(disk, PhilOriginal).kind = "audio"
   /\ AudioFile(disk, PhilOriginal).dur > 0) =>
    /\ Len(call.results) = 1
    /\ IF AudioFile(disk, PhilOriginal).dur <= max_duration
       THEN call.results[1].rec.audio_file = PhilOriginal
       ELSE /\ call.results[1].rec.audio_file = PhilCopy
            /\ AudioFile(disk, PhilCopy) = Audio(max_duration)


\* C15: worker isolation: in every interleaving of the workers of the pool,
\* no worker removes or rewrites a file that the worker of another row of
\* the catalog wrote.
C15_WorkersIsolated == clobbered = {}


\* C16: a persistence failure is surfaced: extract_notes returns True
\* exactly when the file it wrote was read back, and a failing reload ends
\* in the result False, never in True nor in an exception.
C16_ReloadFailureSurfaced ==
  /\ (pc = "returned" /\ succeeded = "True") => reload = "ok"
  /\ reload = "ok" => (pc = "returned" /\ succeeded = "True")
  /\ reload \notin {"none", "ok"} => (pc = "returned" /\ succeeded = "False")

\* C17: the index file one run of extract_notes wrote is read at the start
\* of the next run with skip_existing as an existing index equal to the one
\* written.
C17_IndexRoundTrip ==
  (/\ nruns >= 2
   /\ skip_existing
   /\ artifact.format = "pickle"
   /\ reload = "none"
   /\ pc \in {"running", "raised"}) =>
    /\ pc = "running"
    /\ notes_df = artifact.frame


C19_ArtifactsAlwaysLeft ==
  (tpc = "returned" \/ (cancelled /\ tpc = "raised")) =>
    {ConfigFile, FinalParams} \subseteq model_files

\* The datasets hold_out_set names.
HeldOut ==
  IF hold_out_set.type = "str" THEN {hold_out_set.value}
  ELSE Range(hold_out_set.value)

\* C20: hold-out exclusion: the datasets train_model trains on and the rows
\* of the dataframe handed to the streamer are of no held-out dataset.
C20_HoldOutExcluded ==
  tpc \in {"loop", "batch", "epoch_end", "final", "returned"} =>
    /\ datasets \cap HeldOut = {}
    /\ \A k \in training_df : features_df[k].dataset \notin HeldOut

\* The training dataframe has been built: construct_training_df returned.
Built == tpc # "setup" /\ exc # "ValueError"

\* The instruments present in the datasets selected for training.
Instruments ==
  {features_df[k].instrument :
     k \in {j \in 1..Len(features_df) : features_df[j].dataset \in datasets}}

\* C21: for a positive max_files_per_class n, the training dataframe that
\* construct_training_df returns has exactly n rows for each instrument
\* present in the selected datasets, n times the number of instruments in
\* total, and every row is a row of the selected datasets.
C21_PerClassCap ==
  (Built /\ max_files_per_class > 0) =>
    /\ \A i \in Instruments :
         Cardinality({k \in training_df : features_df[k].instrument = i})
           = max_files_per_class
    /\ Cardinality(training_df) =
         max_files_per_class * Cardinality(Instruments)
    /\ \A k \in training_df : features_df[k].dataset \in datasets

\* A list hold-out leaves two datasets with two instruments; one row of
\* each instrument is drawn.
C21_Witness ==
  /\ Built
  /\ hold_out_set.type = "list"
  /\ max_files_per_class = 1
  /\ datasets = {UIOWA, PHILHARMONIA}
  /\ Cardinality(Instruments) = 2
  /\ Cardinality(training_df) = 2

\* The last direct call was of split_examples.
SplitCall == call.op = "split_examples"

\* The files of the output directory when the validation pass begins: the
\* disk as it is (skip_processing), or after the clean-up and the
\* segmentation call.
Candidates ==
  LET input == Row[call.row].audio_file
      out == Row[call.row].dataset
  IN IF call.skip_processing THEN call.before
     ELSE split_along_silence(
            IF call.clean_state
            THEN Remove(call.before, StemFiles(call.before, input, out))
            ELSE call.before,
            join(out, basename(input)), call.sox).disk

\* C22: when the segmentation call succeeds or is skipped, split_examples
\* returns exactly the stem-matching files of the output directory that last
\* at least min_voicing_duration; every other stem-matching candidate (too
\* short, or failing to open) is deleted, and every returned path exists.
C22_ValidationPass ==
  (SplitCall /\ call.validated) =>
    LET input == Row[call.row].audio_file
        out == Row[call.row].dataset
        good == {p \in StemFiles(Candidates, input, out) :
                   /\ Candidates[p].kind = "audio"
                   /\ Candidates[p].dur >= min_voicing_duration}
    IN /\ call.exc = "none"
       /\ Range(call.files) = good
       /\ StemFiles(disk, input, out) = good
       /\ \A p \in Range(call.files) : exists(disk, p)

\* The paths the segmentation call of the last split_examples call wrote.
SoxPaths ==
  {join(Row[call.row].dataset, SoxName(basename(Row[call.row].audio_file), k)) :
     k \in 1..Len(call.sox[1])}

\* C23: with skip_processing false and clean_state true, every derived file
\* of the input that was in the output directory before the call is deleted
\* before the segmentation call writes (a file of that name found afterwards
\* is the one this call wrote, and the clips this call wrote are not deleted
\* by the clean-up), the original is never deleted, and every clip returned
\* was written by this call's segmentation.
C23_CleanRerun ==
  (SplitCall /\ ~call.skip_processing /\ call.clean_state) =>
    LET input == Row[call.row].audio_file
        out == Row[call.row].dataset
        new_output_path == join(out, basename(input))
        written == SoxWrite(EmptyDisk, new_output_path, call.sox[1], 1)
    IN /\ call.soxCalls = 1
       /\ \A p \in StemFiles(call.before, input, out) :
            exists(disk, p) => (p \in SoxPaths /\ disk[p] = written[p])
       /\ \A p \in SoxPaths :
            (/\ call.validated
             /\ call.exc = "none"
             /\ written[p].kind = "audio"
             /\ written[p].dur >= min_voicing_duration)
            => (exists(disk, p) /\ p \in Range(call.files))
       /\ exists(disk, input)
       /\ disk[input] = call.before[input]
       /\ exists(call.before, new_output_path) =>
            (/\ exists(disk, new_output_path)
             /\ disk[new_output_path] = call.before[new_output_path])
       /\ \A k \in 1..Len(call.files) :
            /\ call.files[k] \in SoxPaths
            /\ disk[call.files[k]] = written[call.files[k]]

\* A clean re-run over two old clips, both long enough to be returned: the
\* segmentation writes one clip, and only that one is returned.
C23_Witness ==
  /\ SplitCall
  /\ ~call.skip_processing
  /\ call.clean_state
  /\ Cardinality(StemFiles(call.before, Row[call.row].audio_file,
                           Row[call.row].dataset)) = 2
  /\ \A p \in StemFiles(call.before, Row[call.row].audio_file,
                         Row[call.row].dataset) : call.before[p] = Long
  /\ call.sox = <<<<Fits>>, TRUE>>
  /\ Len(call.files) = 1
  /\ Cardinality(StemFiles(disk, Row[call.row].audio_file,
                           Row[call.row].dataset)) = 1

\* The clip opens and has a duration above zero.
Opens(d, p) == AudioFile(d, p).kind = "audio" /\ AudioFile(d, p).dur > 0

\* The ids of the notes among ns that open, in order.
RECURSIVE Surviving(_, _, _)
Surviving(d, dataset, ns) ==
  IF ns = <<>> THEN <<>>
  ELSE (IF Opens(d, Head(ns)) THEN <<generate_id(dataset, Head(ns))>>
        ELSE <<>>) \o Surviving(d, dataset, Tail(ns))

\* C24: standardize_one returns None for a clip that cannot be opened or has
\* zero duration, calling no trim and writing no file; row_to_notes then has
\* no record for that clip and one record for each of the other clips.
C24_UnreadableClipDropped ==
  /\ (/\ pc = "done" /\ call.op = "standardize_one"
      /\ ~Opens(call.before, call.input)) =>
       /\ call.exc = "none"
       /\ call.ret = NonePath
       /\ call.trimCalls = 0
       /\ disk = call.before
       /\ dirs = call.dirsBefore
  /\ (call.op = "row_to_notes" /\ ~call.skip_processing) =>
       /\ call.exc = "none"
       /\ [j \in 1..Len(call.results) |-> call.results[j].child]
            = Surviving(disk, Row[call.row].dataset, call.notes)

\* The records the rows processed in the current run have produced.
RunRecords == UNION {Range(results[i]) : i \in DOMAIN results}

\* The current run neither segments nor trims.
NoToolCalls == soxCalls = 0 /\ trimCalls = 0

\* C25: a run of datasets_to_notes with skip_processing=true invokes neither
\* the segmentation nor the trim for any row, and every record it builds
\* names a file that was on disk when the run started.
C25_SkipProcessingReindexes ==
  (nruns > 0 /\ skip_processing) =>
    /\ NoToolCalls
    /\ \A e \in RunRecords : exists(disk0, e.rec.audio_file)

\* C26: the index datasets_to_notes returns holds no (parent, child) key
\* twice, and for every parent processed in the run only the records that
\* this processing produced.
C26_NoDuplicateEntries ==
  pc = "returned" =>
    /\ \A j, k \in 1..Len(index) :
         (index[j].parent = index[k].parent
          /\ index[j].child = index[k].child) => j = k
    /\ \A i \in DOMAIN results : EntriesOf(index, i) = results[i]

\* C27: a run of datasets_to_notes with skip_processing=true leaves the files
\* as they were when it started: none deleted, created or rewritten.
C27_SkipProcessingKeepsDisk ==
  (nruns > 0 /\ skip_processing /\ ~touched) => disk = disk0

\* C28: model_search terminates on a non-empty parameter list (every
\* iteration strictly shrinks the interval [start_ind, end_ind], inside the
\* previous one) and the model it returns was evaluated during the search:
\* its index is a key of the results, also for a list of one file.
C28_SearchReturnsEvaluated ==
  /\ [](spc # "raised")
  /\ [](spc = "returned" => selected \in search_results)
  /\ [][(spc = "search" /\ start_ind # end_ind) =>
          /\ start_ind <= start_ind'
          /\ end_ind' <= end_ind
          /\ start_ind' <= end_ind'
          /\ end_ind' - start_ind' < end_ind - start_ind]_vars

\* The end of the interval that compare_models prefers: the right one when
\* its mean_acc is higher, the left one otherwise.
Preferred ==
  IF compare_models(param_list[start_ind], param_list[end_ind]) >= 0
  THEN end_ind ELSE start_ind

\* C29: every step of the search keeps the end that compare_models prefers
\* inside the remaining interval; for two adjacent candidates the remaining
\* interval is the returned model, so the preferred one is returned.
C29_SearchKeepsPreferred ==
  [][(spc = "search" /\ start_ind # end_ind) =>
       (start_ind' <= Preferred /\ Preferred <= end_ind')]_vars

====
